---- MODULE Spec2Model ----
(***************************************************************************)
(* A model of the pipeline orchestrator of the ai-assistant repository:   *)
(* PipelineOrchestrator (src/pipeline_orchestrator.py), the asynchronous   *)
(* variant with per-step retry, a circuit breaker per component, fallback  *)
(* payloads for critical steps and mode-based step sequences.              *)
(*                                                                         *)
(* execute_pipeline is a coroutine.  Its only suspension point is the      *)
(* `await asyncio.sleep(delay)` between two attempts of a step (the HTTP   *)
(* call is made with the blocking requests session), so a second call on   *)
(* the same orchestrator can run only while the first one sleeps.  The     *)
(* variable `running` is the coroutine that holds the event loop.          *)
(***************************************************************************)
EXTENDS Integers, Sequences, FiniteSets, TLC

\* ------------------------------------------------------------------ bounds

\* Number of execute_pipeline calls made on the orchestrator.
MaxExecs == 2
\* The wall clock (time.time()) runs from T0 to MaxTime.
MaxTime == 3

\* ----------------------------------------------------------- value domains

\* time.time() at the first call: a positive reading (None and 0 are falsy).
T0 == 1
\* Python's None where a timestamp is expected.
None == 0
\* Python's None where a duration is expected (a duration may be 0).
NoDuration == -1

Execs == 1..MaxExecs

\* StepStatus
PENDING == "pending"
IN_PROGRESS == "in_progress"
COMPLETED == "completed"
FAILED == "failed"
SKIPPED == "skipped"

\* PipelineMode: the members and their values.
PipelineMode == {"QUICK", "ANALYSIS", "FULL"}
ModeValue(mode) ==
  CASE mode = "QUICK" -> "quick_mode"
    [] mode = "ANALYSIS" -> "analysis_mode"
    [] mode = "FULL" -> "full_pipeline"

\* The keys of the data context and the marker of a key that is not there.
Fields ==
  {"message_text", "summary", "task_id", "response_text", "metric_id"}
Absent == "absent"
EmptyDict == [f \in Fields |-> Absent]

\* dict.update(d): the keys of d overwrite those of ctx.
DictUpdate(ctx, d) == [f \in Fields |-> IF d[f] # Absent THEN d[f] ELSE ctx[f]]

Keys(d) == {f \in Fields : d[f] # Absent}

\* The input payloads of the calls: one with the message, one without it.
Inputs == { [EmptyDict EXCEPT !["message_text"] = "input"], EmptyDict }

\* The outcomes of one HTTP POST: a JSON object, a transport or HTTP error,
\* and a 2xx response whose JSON body is not an object (a number, null).
Outcomes == {"ok", "error", "nondict"}

\* ------------------------------------------------------------ configuration

\* retry_count of a step that has no "retry_count" key.
NoKey == -1

\* config["sequence"]["steps"]
ConfigSteps ==
  << [name |-> "summarize", component |-> "seeya", enabled |-> TRUE,
      retry_count |-> 1, required_fields |-> {"message_text"},
      output_fields |-> {"summary"}],
     [name |-> "respond", component |-> "seeya", enabled |-> TRUE,
      retry_count |-> 0, required_fields |-> {"summary"},
      output_fields |-> {"response_text"}],
     [name |-> "coach_feedback", component |-> "parth", enabled |-> FALSE,
      retry_count |-> 0, required_fields |-> {},
      output_fields |-> {}],
     [name |-> "metrics", component |-> "nilesh", enabled |-> TRUE,
      retry_count |-> NoKey, required_fields |-> {},
      output_fields |-> {"metric_id"}] >>

\* config["routing"]: the default flow holds a disabled step, full_pipeline
\* has no entry under bypass_modes, and analysis_mode names a step
\* (search_similar) that sequence.steps lacks.
ConfigRouting ==
  [default_flow |-> <<"summarize", "coach_feedback", "respond">>,
   bypass_modes |->
     [m \in {"quick_mode", "analysis_mode"} |->
        IF m = "quick_mode"
          THEN <<"metrics", "coach_feedback", "summarize">>
          ELSE <<"metrics", "search_similar">>]]

ConfigComponents == {"seeya", "parth", "nilesh"}

\* config["error_handling"]["fallback_responses"]: none, a canned response
\* for summarize, an empty payload for summarize.
EmptyFallback == [s \in {"summarize"} |-> EmptyDict]
FallbackChoices ==
  { [s \in {} |-> EmptyDict],
    [s \in {"summarize"} |-> [EmptyDict EXCEPT !["response_text"] = "fallback"]],
    EmptyFallback }

\* A configuration: the breaker switch and the fallback payloads vary.
Config(enabled, fallback_responses) ==
  [sequence |-> [steps |-> ConfigSteps],
   routing |-> ConfigRouting,
   components |-> ConfigComponents,
   error_handling |->
     [retry_delays |-> <<1, 2>>,
      circuit_breaker |-> [enabled |-> enabled, failure_threshold |-> 2,
                           recovery_timeout |-> 1],
      fallback_responses |-> fallback_responses]]

\* The configurations the orchestrator is constructed with: the breaker
\* enabled with each choice of fallbacks, and disabled with the canned one.
Configs ==
  {Config(TRUE, fb) : fb \in FallbackChoices}
    \cup {Config(FALSE, fb) : fb \in {f \in FallbackChoices : f # EmptyFallback
                                                          /\ DOMAIN f # {}}}

\* A second routing table, for a deployment whose analysis flow calls the
\* component seeya before and after the metrics step: respond (which finds
\* no summary in the input), metrics, summarize.  Only summarize is
\* critical, and quick_mode and full_pipeline fall back to the default flow.
TrialRouting ==
  [default_flow |-> <<"summarize", "coach_feedback">>,
   bypass_modes |->
     [m \in {"analysis_mode"} |->
        <<"respond", "metrics", "summarize", "search_similar">>]]

\* The steps of that deployment: metrics is given two retries.
TrialSteps ==
  [i \in 1..Len(ConfigSteps) |->
     IF ConfigSteps[i].name = "metrics"
       THEN [ConfigSteps[i] EXCEPT !.retry_count = 2]
       ELSE ConfigSteps[i]]

\* Its retry_delays lists: one delay per retry of metrics, one delay for
\* its two retries, and no delay at all.
TrialDelays == { <<1, 2>>, <<2>>, <<>> }

\* The configurations with that routing: the breaker enabled, the canned
\* fallback for summarize, each list of delays.
TrialConfigs ==
  { [Config(TRUE, fb) EXCEPT !.routing = TrialRouting,
                             !.sequence.steps = TrialSteps,
                             !.error_handling.retry_delays = retry_delays] :
      fb \in {f \in FallbackChoices : f # EmptyFallback /\ DOMAIN f # {}},
      retry_delays \in TrialDelays }

\* ------------------------------------------------------------------- state

VARIABLES
  config,             \* self.config, loaded once
  now,                \* time.time() / datetime.now()
  circuit_breakers,   \* self.circuit_breakers
  execution_history,  \* self.execution_history
  logs,               \* logs/execution_<id>.json: execution_id -> record
  running,            \* the coroutine holding the event loop, 0 if none
  pc,                 \* per call: its position in execute_pipeline
  execution,          \* per call: its PipelineExecution
  step_sequence,      \* per call: the resolved sequence
  idx,                \* per call: the position of the for loop in it
  current_data,       \* per call: the accumulated context
  attempt,            \* per call: the loop variable of the retry loop
  stat,               \* per call: what was done for the current step record
  consecutive         \* per component: the run of exhausted step failures

vars == << config, now, circuit_breakers, execution_history, logs, running,
           pc, execution, step_sequence, idx, current_data, attempt, stat,
           consecutive >>

\* ----------------------------------------------------------------- records

Range(s) == {s[i] : i \in 1..Len(s)}

\* The PipelineExecution of a call that has not been made.
NoExecution ==
  [execution_id |-> None, mode |-> "FULL", status |-> PENDING,
   start_time |-> None, end_time |-> None, total_duration_ms |-> NoDuration,
   steps |-> <<>>, error |-> <<>>]

\* PipelineExecution(execution_id, mode, IN_PROGRESS, datetime.now()); the
\* default id is exec_<int(time.time() * 1000)>, the clock's reading.
NewExecution(mode) ==
  [execution_id |-> now, mode |-> mode, status |-> IN_PROGRESS,
   start_time |-> now, end_time |-> None, total_duration_ms |-> NoDuration,
   steps |-> <<>>, error |-> <<>>]

\* PipelineStep(name, component, IN_PROGRESS, datetime.now(), input_data)
NewStep(step_config, data) ==
  [name |-> step_config.name, component |-> step_config.component,
   status |-> IN_PROGRESS, start_time |-> now, end_time |-> None,
   duration_ms |-> NoDuration, input_data |-> data,
   output_data |-> [kind |-> "none", body |-> EmptyDict],
   error |-> "None", retry_count |-> 0]

\* What was done for the current step record: the invocations of
\* _execute_step_with_retry, the calls of _execute_single_step, the POSTs
\* sent, whether the step was admitted by an open breaker whose recovery
\* timeout had passed, and the delays passed to asyncio.sleep.
NoStat ==
  [invocations |-> 0, calls |-> 0, posts |-> 0, trial |-> FALSE,
   delays |-> <<>>]

\* ------------------------------------------------------- configuration reads

\* The default flow whatever the mode.
_get_step_sequence_Default(mode) == config.routing.default_flow

\* mode_config.get(mode.value, default_flow)
_get_step_sequence(mode) ==
  LET mode_config == config.routing.bypass_modes
  IN  IF ModeValue(mode) \in DOMAIN mode_config
        THEN mode_config[ModeValue(mode)]
        ELSE config.routing.default_flow

\* The first step of sequence.steps with that name; found = FALSE is the
\* ValueError "Step configuration not found".
_get_step_config(step_name) ==
  LET steps == config.sequence.steps
      hits == {i \in 1..Len(steps) : steps[i].name = step_name}
  IN  IF hits = {} THEN [found |-> FALSE, step |-> steps[1]]
      ELSE [found |-> TRUE,
            step |-> steps[CHOOSE i \in hits : \A j \in hits : i <= j]]

\* fallbacks.get(step_name): some = FALSE is None.
_get_fallback_data(step_name) ==
  LET fallbacks == config.error_handling.fallback_responses
  IN  IF step_name \in DOMAIN fallbacks
        THEN [some |-> TRUE, payload |-> fallbacks[step_name]]
        ELSE [some |-> FALSE, payload |-> EmptyDict]

\* `if fallback_data:` -- None and the empty dict are both falsy.
Truthy(fallback_data) == fallback_data.some /\ fallback_data.payload # EmptyDict

\* step_config.get("retry_count", 1)
RetryCount(step_config) ==
  IF step_config.retry_count = NoKey THEN 1 ELSE step_config.retry_count

\* retry_delays[min(attempt, len(retry_delays) - 1)]
RetryDelay(a) ==
  LET retry_delays == config.error_handling.retry_delays
      last == Len(retry_delays) - 1
  IN  retry_delays[(IF a < last THEN a ELSE last) + 1]

\* ------------------------------------------------------------ circuit breaker

\* An open breaker more than recovery_timeout after its last failure.
RecoveryDue(component) ==
  LET breaker == circuit_breakers[component]
  IN  /\ breaker.state = "open"
      /\ breaker.last_failure # None
      /\ now - breaker.last_failure
           > config.error_handling.circuit_breaker.recovery_timeout

\* _is_circuit_open without the recovery: an open breaker stays open.
_is_circuit_open_NoRecovery(component) ==
  LET cb == config.error_handling.circuit_breaker
      breaker == circuit_breakers[component]
  IN  [open |-> cb.enabled /\ breaker.state = "open",
       breakers |-> circuit_breakers]

\* _is_circuit_open stamping an open breaker at each rejected consultation.
_is_circuit_open_Stamps(component) ==
  LET cb == config.error_handling.circuit_breaker
      breaker == circuit_breakers[component]
  IN  IF ~cb.enabled
        THEN [open |-> FALSE, breakers |-> circuit_breakers]
      ELSE IF breaker.state = "open"
        THEN IF breaker.last_failure # None
                /\ now - breaker.last_failure > cb.recovery_timeout
               THEN [open |-> FALSE,
                     breakers |-> [circuit_breakers EXCEPT
                                     ![component].state = "half-open"]]
               ELSE [open |-> TRUE,
                     breakers |-> [circuit_breakers EXCEPT
                                     ![component].last_failure = now]]
      ELSE [open |-> FALSE, breakers |-> circuit_breakers]

\* _is_circuit_open: the answer and the breakers it leaves.
_is_circuit_open(component) ==
  LET cb == config.error_handling.circuit_breaker
      breaker == circuit_breakers[component]
  IN  IF ~cb.enabled
        THEN [open |-> FALSE, breakers |-> circuit_breakers]
      ELSE IF breaker.state = "open"
        THEN IF breaker.last_failure # None
                /\ now - breaker.last_failure > cb.recovery_timeout
               THEN [open |-> FALSE,
                     breakers |-> [circuit_breakers EXCEPT
                                     ![component].state = "half-open"]]
               ELSE [open |-> TRUE, breakers |-> circuit_breakers]
      ELSE [open |-> FALSE, breakers |-> circuit_breakers]

\* _record_failure opening the breaker one failure late (> for >=).
_record_failure_Late(component) ==
  LET breaker == circuit_breakers[component]
      failures == breaker.failures + 1
      failure_threshold == config.error_handling.circuit_breaker.failure_threshold
  IN  [circuit_breakers EXCEPT ![component] =
         [failures |-> failures, last_failure |-> now,
          state |-> IF failures > failure_threshold THEN "open"
                    ELSE breaker.state]]

\* _record_failure opening the breaker one failure early.
_record_failure_Early(component) ==
  LET breaker == circuit_breakers[component]
      failures == breaker.failures + 1
      failure_threshold == config.error_handling.circuit_breaker.failure_threshold
  IN  [circuit_breakers EXCEPT ![component] =
         [failures |-> failures, last_failure |-> now,
          state |-> IF failures >= failure_threshold - 1 THEN "open"
                    ELSE breaker.state]]

\* _record_failure: the breakers it leaves.
_record_failure(component) ==
  LET breaker == circuit_breakers[component]
      failures == breaker.failures + 1
      failure_threshold == config.error_handling.circuit_breaker.failure_threshold
  IN  [circuit_breakers EXCEPT ![component] =
         [failures |-> failures, last_failure |-> now,
          state |-> IF failures >= failure_threshold THEN "open"
                    ELSE breaker.state]]

\* _reset_circuit_breaker closing the breaker and keeping its count.
_reset_circuit_breaker_KeepsCount(component) ==
  [circuit_breakers EXCEPT ![component].state = "closed"]

\* _reset_circuit_breaker: the breakers it leaves.
_reset_circuit_breaker(component) ==
  [circuit_breakers EXCEPT ![component].failures = 0,
                           ![component].state = "closed"]

\* -------------------------------------------------------------------- Init

Init ==
  /\ config \in Configs
  /\ now = T0
  /\ circuit_breakers =
       [c \in config.components |->
          [failures |-> 0, last_failure |-> None, state |-> "closed"]]
  /\ execution_history = <<>>
  /\ logs = [i \in {} |-> NoExecution]
  /\ running = 0
  /\ pc = [e \in Execs |-> "idle"]
  /\ execution = [e \in Execs |-> NoExecution]
  /\ step_sequence = [e \in Execs |-> <<>>]
  /\ idx = [e \in Execs |-> 1]
  /\ current_data = [e \in Execs |-> EmptyDict]
  /\ attempt = [e \in Execs |-> 0]
  /\ stat = [e \in Execs |-> NoStat]
  /\ consecutive = [c \in config.components |-> 0]

\* The orchestrator constructed with the second routing table.
InitTrial ==
  /\ config \in TrialConfigs
  /\ now = T0
  /\ circuit_breakers =
       [c \in config.components |->
          [failures |-> 0, last_failure |-> None, state |-> "closed"]]
  /\ execution_history = <<>>
  /\ logs = [i \in {} |-> NoExecution]
  /\ running = 0
  /\ pc = [e \in Execs |-> "idle"]
  /\ execution = [e \in Execs |-> NoExecution]
  /\ step_sequence = [e \in Execs |-> <<>>]
  /\ idx = [e \in Execs |-> 1]
  /\ current_data = [e \in Execs |-> EmptyDict]
  /\ attempt = [e \in Execs |-> 0]
  /\ stat = [e \in Execs |-> NoStat]
  /\ consecutive = [c \in config.components |-> 0]

\* ---------------------------------------------------------- execute_pipeline

\* The step record the call is working on: the last one appended.
CurrentStep(e) == execution[e].steps[Len(execution[e].steps)]

\* The execution with its current step record replaced.
WithStep(e, step) ==
  [execution[e] EXCEPT !.steps[Len(execution[e].steps)] = step]

\* The `except Exception` of the step (lines 203-224): the step record is
\* marked `status` with its error; a critical step merges its fallback
\* payload or fails the pipeline and leaves the loop, any other step lets
\* the loop go on.
StepFailure(e, err, status, critical, fallback_data, leaves) ==
  LET step == CurrentStep(e)
      failed == [step EXCEPT !.error = err, !.status = status,
                             !.end_time = now,
                             !.duration_ms = now - step.start_time]
  IN  IF critical
        THEN IF Truthy(fallback_data)
               THEN /\ execution' = [execution EXCEPT ![e] = WithStep(e, failed)]
                    /\ current_data' = [current_data EXCEPT ![e] =
                                          DictUpdate(@, fallback_data.payload)]
                    /\ idx' = [idx EXCEPT ![e] = @ + 1]
                    /\ pc' = [pc EXCEPT ![e] = "loop"]
               ELSE /\ execution' = [execution EXCEPT ![e] =
                         [WithStep(e, failed) EXCEPT
                            !.status = FAILED,
                            !.error = <<"Critical step failed", step.name, err>>]]
                    /\ IF leaves
                         THEN /\ pc' = [pc EXCEPT ![e] = "finally"]
                              /\ UNCHANGED idx
                         ELSE /\ pc' = [pc EXCEPT ![e] = "loop"]
                              /\ idx' = [idx EXCEPT ![e] = @ + 1]
                    /\ UNCHANGED current_data
        ELSE /\ execution' = [execution EXCEPT ![e] = WithStep(e, failed)]
             /\ idx' = [idx EXCEPT ![e] = @ + 1]
             /\ pc' = [pc EXCEPT ![e] = "loop"]
             /\ UNCHANGED current_data

IsCritical(e) == CurrentStep(e).name \in Range(config.routing.default_flow)

\* The handler without its `break`.
HandleStepFailure_NoBreak(e, err) ==
  StepFailure(e, err, FAILED, IsCritical(e),
              _get_fallback_data(CurrentStep(e).name), FALSE)

\* The handler leaving the step record's status as it is.
HandleStepFailure_NoStatus(e, err) ==
  StepFailure(e, err, CurrentStep(e).status, IsCritical(e),
              _get_fallback_data(CurrentStep(e).name), TRUE)

\* The handler taking every step for a critical one.
HandleStepFailure_AllCritical(e, err) ==
  StepFailure(e, err, FAILED, TRUE,
              _get_fallback_data(CurrentStep(e).name), TRUE)

\* The handler taking no step for a critical one.
HandleStepFailure_NoneCritical(e, err) ==
  StepFailure(e, err, FAILED, FALSE,
              _get_fallback_data(CurrentStep(e).name), TRUE)

HandleStepFailure(e, err) ==
  StepFailure(e, err, FAILED, IsCritical(e),
              _get_fallback_data(CurrentStep(e).name), TRUE)

\* Lines 154-171: the execution record is created, the sequence resolved and
\* the input copied.  A call starts when no coroutine holds the event loop.
Start(e, input_data, mode) ==
  /\ running = 0
  /\ pc[e] = "idle"
  /\ \A f \in Execs : f < e => pc[f] # "idle"
  /\ execution' = [execution EXCEPT ![e] = NewExecution(mode)]
  /\ step_sequence' = [step_sequence EXCEPT ![e] = _get_step_sequence(mode)]
  /\ idx' = [idx EXCEPT ![e] = 1]
  /\ current_data' = [current_data EXCEPT ![e] = input_data]
  /\ pc' = [pc EXCEPT ![e] = "loop"]
  /\ running' = e
  /\ UNCHANGED <<config, now, circuit_breakers, execution_history, logs,
                 attempt, stat, consecutive>>

AtLoop(e) == running = e /\ pc[e] = "loop"

\* Lines 226-228: the sequence is exhausted.
LoopEnd(e) ==
  /\ AtLoop(e)
  /\ idx[e] > Len(step_sequence[e])
  /\ execution' = [execution EXCEPT ![e].status =
                     IF @ # FAILED THEN COMPLETED ELSE @]
  /\ pc' = [pc EXCEPT ![e] = "finally"]
  /\ UNCHANGED <<config, now, circuit_breakers, execution_history, logs,
                 running, step_sequence, idx, current_data, attempt, stat,
                 consecutive>>

\* Lines 174, 230-234: _get_step_config raises, the top-level except marks
\* the execution `status`.
ConfigLookupRaises(e, status) ==
  /\ AtLoop(e)
  /\ idx[e] <= Len(step_sequence[e])
  /\ ~_get_step_config(step_sequence[e][idx[e]]).found
  /\ execution' = [execution EXCEPT
                     ![e].status = status,
                     ![e].error = <<"Step configuration not found",
                                    step_sequence[e][idx[e]]>>]
  /\ pc' = [pc EXCEPT ![e] = "finally"]
  /\ UNCHANGED <<config, now, circuit_breakers, execution_history, logs,
                 running, step_sequence, idx, current_data, attempt, stat,
                 consecutive>>

\* The top-level except leaving the status IN_PROGRESS.
StepConfigNotFound_KeepsStatus(e) == ConfigLookupRaises(e, execution[e].status)

StepConfigNotFound(e) == ConfigLookupRaises(e, FAILED)

\* Lines 175-177: a disabled step is passed over.
SkipDisabled(e) ==
  /\ AtLoop(e)
  /\ idx[e] <= Len(step_sequence[e])
  /\ LET step_config == _get_step_config(step_sequence[e][idx[e]])
     IN  step_config.found /\ ~step_config.step.enabled
  /\ idx' = [idx EXCEPT ![e] = @ + 1]
  /\ UNCHANGED <<config, now, circuit_breakers, execution_history, logs,
                 running, pc, execution, step_sequence, current_data, attempt,
                 stat, consecutive>>

\* Lines 179-187: the step record is created and appended.
BeginStep(e) ==
  /\ AtLoop(e)
  /\ idx[e] <= Len(step_sequence[e])
  /\ LET step_config == _get_step_config(step_sequence[e][idx[e]])
     IN  /\ step_config.found /\ step_config.step.enabled
         /\ execution' = [execution EXCEPT ![e].steps =
                            Append(@, NewStep(step_config.step, current_data[e]))]
  /\ stat' = [stat EXCEPT ![e] = NoStat]
  /\ pc' = [pc EXCEPT ![e] = "executor"]
  /\ UNCHANGED <<config, now, circuit_breakers, execution_history, logs,
                 running, step_sequence, idx, current_data, attempt,
                 consecutive>>

\* ------------------------------------------------- _execute_step_with_retry

StepConfigOf(e) == _get_step_config(CurrentStep(e).name).step

\* Lines 246-250: the breaker is consulted once, before the retry loop; an
\* open breaker raises, and the step fails without an attempt.
BreakerRejects(e) ==
  /\ running = e /\ pc[e] = "executor"
  /\ LET consulted == _is_circuit_open(CurrentStep(e).component)
     IN  /\ consulted.open
         /\ circuit_breakers' = consulted.breakers
  /\ stat' = [stat EXCEPT ![e].invocations = @ + 1]
  /\ consecutive' = [consecutive EXCEPT ![CurrentStep(e).component] = 0]
  /\ HandleStepFailure(e, "Circuit breaker open")
  /\ UNCHANGED <<config, now, execution_history, logs, running,
                 step_sequence, attempt>>

\* Lines 249-257: the breaker admits the step (moving to half-open when the
\* recovery timeout has passed) and the retry loop is entered.
BreakerAdmits(e) ==
  /\ running = e /\ pc[e] = "executor"
  /\ LET consulted == _is_circuit_open(CurrentStep(e).component)
     IN  /\ ~consulted.open
         /\ circuit_breakers' = consulted.breakers
  /\ stat' = [stat EXCEPT ![e].invocations = @ + 1,
                          ![e].trial = RecoveryDue(CurrentStep(e).component)]
  /\ attempt' = [attempt EXCEPT ![e] = 0]
  /\ pc' = [pc EXCEPT ![e] = "attempt"]
  /\ UNCHANGED <<config, now, execution_history, logs, running, execution,
                 step_sequence, idx, current_data, consecutive>>

\* The call of _execute_single_step that raised err is counted, with its
\* POST when the error came from the request.
Counted(e, err) ==
  [stat[e] EXCEPT !.calls = @ + 1,
                  !.posts = IF err = "HTTP error" THEN @ + 1 ELSE @]

\* Lines 266-278: an attempt raised.  Before the last attempt the delay is
\* looked up and the coroutine sleeps (and yields the event loop); the
\* lookup raises IndexError on an empty retry_delays list, which leaves the
\* executor at once.  After the last attempt the failure is recorded in the
\* breaker and the attempt's exception reaches execute_pipeline.
AttemptRaised(e, err, retry, records) ==
  LET component == CurrentStep(e).component
  IN  IF retry
        THEN IF config.error_handling.retry_delays = <<>>
               THEN /\ stat' = [stat EXCEPT ![e] = Counted(e, err)]
                    /\ consecutive' = [consecutive EXCEPT ![component] = 0]
                    /\ HandleStepFailure(e, "list index out of range")
                    /\ UNCHANGED <<circuit_breakers, running>>
               ELSE /\ stat' = [stat EXCEPT ![e] =
                                  [Counted(e, err) EXCEPT !.delays =
                                     Append(@, RetryDelay(attempt[e]))]]
                    /\ pc' = [pc EXCEPT ![e] = "sleep"]
                    /\ running' = 0
                    /\ circuit_breakers' =
                         IF records THEN _record_failure(component)
                         ELSE circuit_breakers
                    /\ UNCHANGED <<consecutive, execution, current_data, idx>>
        ELSE /\ stat' = [stat EXCEPT ![e] = Counted(e, err)]
             /\ circuit_breakers' = _record_failure(component)
             /\ consecutive' = [consecutive EXCEPT ![component] = @ + 1]
             /\ HandleStepFailure(e, err)
             /\ UNCHANGED running

\* The retry loop going round once more than retry_count + 1 times.
AttemptFailed_ExtraRetry(e, err) ==
  AttemptRaised(e, err, attempt[e] <= RetryCount(StepConfigOf(e)), FALSE)

\* The failure recorded in the breaker at every attempt.
AttemptFailed_RecordsEach(e, err) ==
  AttemptRaised(e, err, attempt[e] < RetryCount(StepConfigOf(e)), TRUE)

AttemptFailed(e, err) ==
  AttemptRaised(e, err, attempt[e] < RetryCount(StepConfigOf(e)), FALSE)

\* Lines 286-289: a required field is missing from the data, ValueError.
MissingFields(e) ==
  StepConfigOf(e).required_fields \ Keys(current_data[e])

ValidationError(e) ==
  /\ running = e /\ pc[e] = "attempt"
  /\ MissingFields(e) # {}
  /\ AttemptFailed(e, "Missing required fields")
  /\ UNCHANGED <<config, now, execution_history, logs, step_sequence, attempt>>

\* Lines 304-305: the POST fails (transport error, timeout, HTTP status).
PostFails(e) ==
  /\ running = e /\ pc[e] = "attempt"
  /\ MissingFields(e) = {}
  /\ AttemptFailed(e, "HTTP error")
  /\ UNCHANGED <<config, now, execution_history, logs, step_sequence, attempt>>

\* response.json(): the declared output fields, or a body that is no object.
ResponseBody(step_config, outcome) ==
  IF outcome = "ok"
    THEN [kind |-> "dict",
          body |-> [f \in Fields |->
                      IF f \in step_config.output_fields
                        THEN step_config.name ELSE Absent]]
    ELSE [kind |-> "nondict", body |-> EmptyDict]

\* Lines 259-264, 193-196: the POST returns a body; the breaker is reset,
\* the result stored in the step record and the record marked COMPLETED.
PostReturns(e, outcome) ==
  /\ running = e /\ pc[e] = "attempt"
  /\ MissingFields(e) = {}
  /\ outcome \in {"ok", "nondict"}
  /\ stat' = [stat EXCEPT ![e].calls = @ + 1, ![e].posts = @ + 1]
  /\ circuit_breakers' = _reset_circuit_breaker(CurrentStep(e).component)
  /\ consecutive' = [consecutive EXCEPT ![CurrentStep(e).component] = 0]
  /\ LET step == CurrentStep(e)
     IN  execution' = [execution EXCEPT ![e] =
           WithStep(e, [step EXCEPT
                          !.output_data = ResponseBody(StepConfigOf(e), outcome),
                          !.status = COMPLETED,
                          !.end_time = now,
                          !.duration_ms = now - step.start_time])]
  /\ pc' = [pc EXCEPT ![e] = "merge"]
  /\ UNCHANGED <<config, now, execution_history, logs, running,
                 step_sequence, idx, current_data, attempt>>

\* The merge leaving the loop on the same step name.
MergeOutput_Repeats(e) ==
  /\ running = e /\ pc[e] = "merge"
  /\ CurrentStep(e).output_data.kind = "dict"
  /\ current_data' = [current_data EXCEPT ![e] =
                        DictUpdate(@, CurrentStep(e).output_data.body)]
  /\ idx' = [idx EXCEPT ![e] = IF Len(execution[e].steps) < 2 THEN @ ELSE @ + 1]
  /\ pc' = [pc EXCEPT ![e] = "loop"]
  /\ UNCHANGED <<config, now, circuit_breakers, execution_history, logs,
                 running, execution, step_sequence, attempt, stat, consecutive>>

\* Line 199: current_data.update(step_result).
MergeOutput(e) ==
  /\ running = e /\ pc[e] = "merge"
  /\ CurrentStep(e).output_data.kind = "dict"
  /\ current_data' = [current_data EXCEPT ![e] =
                        DictUpdate(@, CurrentStep(e).output_data.body)]
  /\ idx' = [idx EXCEPT ![e] = @ + 1]
  /\ pc' = [pc EXCEPT ![e] = "loop"]
  /\ UNCHANGED <<config, now, circuit_breakers, execution_history, logs,
                 running, execution, step_sequence, attempt, stat, consecutive>>

\* Line 199 raises TypeError on a body that is no mapping; the step's own
\* except clause takes it.
MergeRaises(e) ==
  /\ running = e /\ pc[e] = "merge"
  /\ CurrentStep(e).output_data.kind = "nondict"
  /\ HandleStepFailure(e, "object is not iterable")
  /\ UNCHANGED <<config, now, circuit_breakers, execution_history, logs,
                 running, step_sequence, attempt, stat, consecutive>>

\* The sleep ending with the attempt counter left as it is.
Wake_SameAttempt(e) ==
  /\ running = 0 /\ pc[e] = "sleep"
  /\ pc' = [pc EXCEPT ![e] = "attempt"]
  /\ running' = e
  /\ UNCHANGED <<config, now, circuit_breakers, execution_history, logs,
                 execution, step_sequence, idx, current_data, attempt, stat,
                 consecutive>>

\* Line 273: the sleep ends and the next attempt begins.
Wake(e) ==
  /\ running = 0 /\ pc[e] = "sleep"
  /\ attempt' = [attempt EXCEPT ![e] = @ + 1]
  /\ pc' = [pc EXCEPT ![e] = "attempt"]
  /\ running' = e
  /\ UNCHANGED <<config, now, circuit_breakers, execution_history, logs,
                 execution, step_sequence, idx, current_data, stat,
                 consecutive>>

\* json.dump into logs/execution_<id>.json: a file of that name is replaced.
_save_execution_log(finished) ==
  [i \in DOMAIN logs \cup {finished.execution_id} |->
     IF i = finished.execution_id THEN finished ELSE logs[i]]

\* Lines 236-242: the finally clause and the return.
Finally(e) ==
  /\ running = e /\ pc[e] = "finally"
  /\ LET finished == [execution[e] EXCEPT
                        !.end_time = now,
                        !.total_duration_ms = now - execution[e].start_time]
     IN  /\ execution' = [execution EXCEPT ![e] = finished]
         /\ execution_history' = Append(execution_history, finished)
         /\ logs' = _save_execution_log(finished)
  /\ pc' = [pc EXCEPT ![e] = "returned"]
  /\ running' = 0
  /\ UNCHANGED <<config, now, circuit_breakers, step_sequence, idx,
                 current_data, attempt, stat, consecutive>>

\* ------------------------------------------------------------------ queries

\* The limits get_execution_history is called with (10 is the default).
Limits == {1, 10}

\* x placed after the records that start no earlier than it does.
RECURSIVE InsertByStartTime(_, _)
InsertByStartTime(x, s) ==
  IF s = <<>> THEN <<x>>
  ELSE IF Head(s).start_time >= x.start_time
         THEN <<Head(s)>> \o InsertByStartTime(x, Tail(s))
         ELSE <<x>> \o s

\* sorted(history, key=start_time, reverse=True): a new list, latest start
\* first, records of equal start time in their order in the history.
RECURSIVE SortedByStartTime(_)
SortedByStartTime(s) ==
  IF s = <<>> THEN <<>>
  ELSE InsertByStartTime(s[Len(s)], SortedByStartTime(SubSeq(s, 1, Len(s) - 1)))

\* s[:limit]
Take(s, limit) == SubSeq(s, 1, IF limit < Len(s) THEN limit ELSE Len(s))

\* get_execution_history sorting the history itself (list.sort).
get_execution_history_InPlace(limit) ==
  [result |-> Take(SortedByStartTime(execution_history), limit),
   history |-> SortedByStartTime(execution_history)]

\* get_execution_history: what it returns and the history it leaves.
get_execution_history(limit) ==
  [result |-> Take(SortedByStartTime(execution_history), limit),
   history |-> execution_history]

\* A caller reads the recent executions while no coroutine runs.
GetExecutionHistory(limit) ==
  /\ running = 0
  /\ execution_history' = get_execution_history(limit).history
  /\ UNCHANGED <<config, now, circuit_breakers, logs, running, pc, execution,
                 step_sequence, idx, current_data, attempt, stat, consecutive>>

\* get_pipeline_metrics: the counts it returns and the history it leaves.
get_pipeline_metrics ==
  LET successful == {i \in 1..Len(execution_history) :
                       execution_history[i].status = COMPLETED}
      failed == {i \in 1..Len(execution_history) :
                   execution_history[i].status = FAILED}
  IN  [result |->
         IF execution_history = <<>>
           THEN [total_executions |-> 0, successful_executions |-> 0,
                 failed_executions |-> 0, last_execution |-> None]
           ELSE [total_executions |-> Len(execution_history),
                 successful_executions |-> Cardinality(successful),
                 failed_executions |-> Cardinality(failed),
                 last_execution |->
                   execution_history[Len(execution_history)].start_time],
       history |-> execution_history]

\* A caller reads the metrics while no coroutine runs.
GetPipelineMetrics ==
  /\ running = 0
  /\ execution_history' = get_pipeline_metrics.history
  /\ UNCHANGED <<config, now, circuit_breakers, logs, running, pc, execution,
                 step_sequence, idx, current_data, attempt, stat, consecutive>>

\* The wall clock advances.  At its granularity (that of recovery_timeout)
\* time passes while coroutines sleep and between calls; T0 is its reading
\* at the first call, and nothing reads it after the last one.
Tick ==
  /\ now < MaxTime
  /\ running = 0
  /\ \E e \in Execs : pc[e] # "idle"
  /\ \E e \in Execs : pc[e] # "returned"
  /\ now' = now + 1
  /\ UNCHANGED <<config, circuit_breakers, execution_history, logs, running,
                 pc, execution, step_sequence, idx, current_data, attempt,
                 stat, consecutive>>

Next ==
  \/ \E e \in Execs, input_data \in Inputs, mode \in PipelineMode :
       Start(e, input_data, mode)
  \/ \E e \in Execs : LoopEnd(e)
  \/ \E e \in Execs : StepConfigNotFound(e)
  \/ \E e \in Execs : SkipDisabled(e)
  \/ \E e \in Execs : BeginStep(e)
  \/ \E e \in Execs : BreakerRejects(e)
  \/ \E e \in Execs : BreakerAdmits(e)
  \/ \E e \in Execs : ValidationError(e)
  \/ \E e \in Execs : PostFails(e)
  \/ \E e \in Execs, outcome \in Outcomes : PostReturns(e, outcome)
  \/ \E e \in Execs : MergeOutput(e)
  \/ \E e \in Execs : MergeRaises(e)
  \/ \E e \in Execs : Wake(e)
  \/ \E e \in Execs : Finally(e)
  \/ \E limit \in Limits : GetExecutionHistory(limit)
  \/ GetPipelineMetrics
  \/ Tick

Spec == Init /\ [][Next]_vars

\* The same program on the second routing table.
SpecTrial == InitTrial /\ [][Next]_vars

\* ------------------------------- SimplePipelineOrchestrator (synchronous)

\* A message_text that is no string (a number, null).
NotText == "not text"

\* The input payloads of the synchronous calls.
SimpleInputs == Inputs \cup { [EmptyDict EXCEPT !["message_text"] = NotText] }

\* _get_default_config: sequence.steps, with smaller retry budgets (the
\* "retry_count" key is left out of respond).
SimpleSteps ==
  << [name |-> "summarize", component |-> "seeya", enabled |-> TRUE,
      retry_count |-> 1, required_fields |-> {"message_text"},
      output_fields |-> {"summary"}],
     [name |-> "process_summary", component |-> "sankalp", enabled |-> TRUE,
      retry_count |-> 0, required_fields |-> {"summary"},
      output_fields |-> {"task_id"}],
     [name |-> "respond", component |-> "noopur", enabled |-> TRUE,
      retry_count |-> NoKey, required_fields |-> {"task_id"},
      output_fields |-> {"response_text"}] >>

\* _get_default_config: routing.  search_similar, coach_feedback and metrics
\* have no entry in sequence.steps.
SimpleRouting ==
  [default_flow |-> <<"summarize", "process_summary", "respond">>,
   bypass_modes |->
     [m \in {"quick_mode", "analysis_mode", "full_pipeline"} |->
        CASE m = "quick_mode" -> <<"summarize", "respond">>
          [] m = "analysis_mode" -> <<"summarize", "search_similar", "metrics">>
          [] m = "full_pipeline" ->
               <<"summarize", "process_summary", "respond", "search_similar",
                 "coach_feedback", "metrics">>]]

SimpleComponents == {"seeya", "sankalp", "noopur"}

\* The default configuration with the steps of `disabled` switched off.
SimpleConfig(disabled) ==
  [sequence |->
     [steps |-> [i \in 1..Len(SimpleSteps) |->
                   [SimpleSteps[i] EXCEPT
                      !.enabled = SimpleSteps[i].name \notin disabled]]],
   routing |-> SimpleRouting,
   components |-> SimpleComponents]

\* The configurations loaded: the default one, and a file that disables
\* process_summary.
SimpleConfigs == { SimpleConfig({}), SimpleConfig({"process_summary"}) }

\* Lines 70-74: the orchestrator has a configuration, a session and an empty
\* history; it keeps no breakers and writes no logs.
InitSimple ==
  /\ config \in SimpleConfigs
  /\ now = T0
  /\ circuit_breakers = <<>>
  /\ execution_history = <<>>
  /\ logs = <<>>
  /\ running = 0
  /\ pc = [e \in Execs |-> "idle"]
  /\ execution = [e \in Execs |-> NoExecution]
  /\ step_sequence = [e \in Execs |-> <<>>]
  /\ idx = [e \in Execs |-> 1]
  /\ current_data = [e \in Execs |-> EmptyDict]
  /\ attempt = [e \in Execs |-> 0]
  /\ stat = [e \in Execs |-> NoStat]
  /\ consecutive = <<>>

\* Lines 171-186: the record is created, the sequence resolved and the input
\* copied.  The call is synchronous: it holds the thread until it returns.
SimpleStart(e, input_data, mode) ==
  /\ running = 0
  /\ pc[e] = "idle"
  /\ \A f \in Execs : f < e => pc[f] # "idle"
  /\ execution' = [execution EXCEPT ![e] = NewExecution(mode)]
  /\ step_sequence' = [step_sequence EXCEPT ![e] = _get_step_sequence(mode)]
  /\ idx' = [idx EXCEPT ![e] = 1]
  /\ current_data' = [current_data EXCEPT ![e] = input_data]
  /\ pc' = [pc EXCEPT ![e] = "loop"]
  /\ running' = e
  /\ UNCHANGED <<config, now, circuit_breakers, execution_history, logs,
                 attempt, stat, consecutive>>

\* Lines 189-191: a step name with no configuration, or a disabled step, is
\* passed over.
SimpleSkip(e) ==
  /\ AtLoop(e)
  /\ idx[e] <= Len(step_sequence[e])
  /\ LET step_config == _get_step_config(step_sequence[e][idx[e]])
     IN  ~step_config.found \/ ~step_config.step.enabled
  /\ idx' = [idx EXCEPT ![e] = @ + 1]
  /\ UNCHANGED <<config, now, circuit_breakers, execution_history, logs,
                 running, pc, execution, step_sequence, current_data, attempt,
                 stat, consecutive>>

\* Lines 193-205, 260-263: the step record is created and appended, and the
\* retry loop entered.
SimpleBeginStep(e) ==
  /\ AtLoop(e)
  /\ idx[e] <= Len(step_sequence[e])
  /\ LET step_config == _get_step_config(step_sequence[e][idx[e]])
     IN  /\ step_config.found /\ step_config.step.enabled
         /\ execution' = [execution EXCEPT ![e].steps =
                            Append(@, NewStep(step_config.step, current_data[e]))]
  /\ stat' = [stat EXCEPT ![e] = [NoStat EXCEPT !.invocations = 1]]
  /\ attempt' = [attempt EXCEPT ![e] = 0]
  /\ pc' = [pc EXCEPT ![e] = "attempt"]
  /\ UNCHANGED <<config, now, circuit_breakers, execution_history, logs,
                 running, step_sequence, idx, current_data, consecutive>>

\* input_data as the except clause of a step reads it: the input of the
\* first step record is a copy of it, taken before any merge.
InputData(e) == execution[e].steps[1].input_data

\* Lines 222-243: the mock output merged for the step.
MockData(step_name) ==
  CASE step_name = "summarize" -> [EmptyDict EXCEPT !["summary"] = "mock"]
    [] step_name = "process_summary" -> [EmptyDict EXCEPT !["task_id"] = "mock"]
    [] step_name = "respond" -> [EmptyDict EXCEPT !["response_text"] = "mock"]
    [] OTHER -> EmptyDict

\* Line 225: input_data.get('message_text', '')[:50] raises TypeError on a
\* value that cannot be sliced.
MockRaises(e) ==
  CurrentStep(e).name = "summarize" /\ InputData(e)["message_text"] = NotText

\* Lines 215-243, 247-249: the except clause of the step marks the record
\* FAILED and merges the mock output, and the loop goes on; when `raises`,
\* the exception of the clause itself reaches the top-level except, which
\* fails the execution.  `aborts` leaves the loop after the merge.
SimpleStepFailure(e, err, raises, aborts) ==
  LET step == CurrentStep(e)
      failed == [step EXCEPT !.error = err, !.status = FAILED,
                             !.end_time = now,
                             !.duration_ms = now - step.start_time]
  IN  IF raises
        THEN /\ execution' = [execution EXCEPT ![e] =
                  [WithStep(e, failed) EXCEPT
                     !.status = FAILED,
                     !.error = <<"'int' object is not subscriptable">>]]
             /\ pc' = [pc EXCEPT ![e] = "finally"]
             /\ UNCHANGED <<idx, current_data>>
        ELSE /\ current_data' = [current_data EXCEPT ![e] =
                                   DictUpdate(@, MockData(step.name))]
             /\ IF aborts
                  THEN /\ execution' = [execution EXCEPT ![e] =
                            [WithStep(e, failed) EXCEPT !.status = FAILED]]
                       /\ pc' = [pc EXCEPT ![e] = "finally"]
                       /\ UNCHANGED idx
                  ELSE /\ execution' = [execution EXCEPT ![e] =
                                          WithStep(e, failed)]
                       /\ idx' = [idx EXCEPT ![e] = @ + 1]
                       /\ pc' = [pc EXCEPT ![e] = "loop"]

\* The except clause failing the execution and leaving the loop.
SimpleHandleStepFailure_Aborts(e, err) ==
  SimpleStepFailure(e, err, MockRaises(e), TRUE)

SimpleHandleStepFailure(e, err) ==
  SimpleStepFailure(e, err, MockRaises(e), FALSE)

\* Lines 267-273: an attempt raised.  Before the last attempt the thread
\* sleeps one second; after it the last exception is raised to
\* execute_pipeline.
SimpleAttemptRaised(e, err) ==
  IF attempt[e] < RetryCount(StepConfigOf(e))
    THEN /\ stat' = [stat EXCEPT ![e] =
                       [Counted(e, err) EXCEPT !.delays = Append(@, 1)]]
         /\ pc' = [pc EXCEPT ![e] = "sleep"]
         /\ UNCHANGED <<execution, current_data, idx>>
    ELSE /\ stat' = [stat EXCEPT ![e] = Counted(e, err)]
         /\ SimpleHandleStepFailure(e, err)

\* Lines 281-284: a required field is missing from the data, ValueError.
SimpleValidationError(e) ==
  /\ running = e /\ pc[e] = "attempt"
  /\ MissingFields(e) # {}
  /\ SimpleAttemptRaised(e, "Missing required fields")
  /\ UNCHANGED <<config, now, circuit_breakers, execution_history, logs,
                 running, step_sequence, attempt, consecutive>>

\* Lines 297-298: the POST fails (transport error, timeout, HTTP status).
SimplePostFails(e) ==
  /\ running = e /\ pc[e] = "attempt"
  /\ MissingFields(e) = {}
  /\ SimpleAttemptRaised(e, "HTTP error")
  /\ UNCHANGED <<config, now, circuit_breakers, execution_history, logs,
                 running, step_sequence, attempt, consecutive>>

\* Line 270: time.sleep(1) ends and the next attempt begins.
SimpleWake(e) ==
  /\ running = e /\ pc[e] = "sleep"
  /\ attempt' = [attempt EXCEPT ![e] = @ + 1]
  /\ pc' = [pc EXCEPT ![e] = "attempt"]
  /\ UNCHANGED <<config, now, circuit_breakers, execution_history, logs,
                 running, execution, step_sequence, idx, current_data, stat,
                 consecutive>>

\* Lines 300-301, 207-210: the POST returns a body; the result is stored in
\* the step record and the record marked COMPLETED.
SimplePostReturns(e, outcome) ==
  /\ running = e /\ pc[e] = "attempt"
  /\ MissingFields(e) = {}
  /\ outcome \in {"ok", "nondict"}
  /\ stat' = [stat EXCEPT ![e].calls = @ + 1, ![e].posts = @ + 1]
  /\ LET step == CurrentStep(e)
     IN  execution' = [execution EXCEPT ![e] =
           WithStep(e, [step EXCEPT
                          !.output_data = ResponseBody(StepConfigOf(e), outcome),
                          !.status = COMPLETED,
                          !.end_time = now,
                          !.duration_ms = now - step.start_time])]
  /\ pc' = [pc EXCEPT ![e] = "merge"]
  /\ UNCHANGED <<config, now, circuit_breakers, execution_history, logs,
                 running, step_sequence, idx, current_data, attempt,
                 consecutive>>

\* Line 213: current_data.update(step_result).
SimpleMergeOutput(e) ==
  /\ running = e /\ pc[e] = "merge"
  /\ CurrentStep(e).output_data.kind = "dict"
  /\ current_data' = [current_data EXCEPT ![e] =
                        DictUpdate(@, CurrentStep(e).output_data.body)]
  /\ idx' = [idx EXCEPT ![e] = @ + 1]
  /\ pc' = [pc EXCEPT ![e] = "loop"]
  /\ UNCHANGED <<config, now, circuit_breakers, execution_history, logs,
                 running, execution, step_sequence, attempt, stat, consecutive>>

\* Line 213 raises TypeError on a body that is no mapping; the step's own
\* except clause takes it.
SimpleMergeRaises(e) ==
  /\ running = e /\ pc[e] = "merge"
  /\ CurrentStep(e).output_data.kind = "nondict"
  /\ SimpleHandleStepFailure(e, "object is not iterable")
  /\ UNCHANGED <<config, now, circuit_breakers, execution_history, logs,
                 running, step_sequence, attempt, stat, consecutive>>

\* Line 245: the sequence is exhausted.
SimpleLoopEnd(e) ==
  /\ AtLoop(e)
  /\ idx[e] > Len(step_sequence[e])
  /\ execution' = [execution EXCEPT ![e].status = COMPLETED]
  /\ pc' = [pc EXCEPT ![e] = "finally"]
  /\ UNCHANGED <<config, now, circuit_breakers, execution_history, logs,
                 running, step_sequence, idx, current_data, attempt, stat,
                 consecutive>>

\* Lines 251-256: the finally clause and the return.
SimpleFinally(e) ==
  /\ running = e /\ pc[e] = "finally"
  /\ LET finished == [execution[e] EXCEPT
                        !.end_time = now,
                        !.total_duration_ms = now - execution[e].start_time]
     IN  /\ execution' = [execution EXCEPT ![e] = finished]
         /\ execution_history' = Append(execution_history, finished)
  /\ pc' = [pc EXCEPT ![e] = "returned"]
  /\ running' = 0
  /\ UNCHANGED <<config, now, circuit_breakers, logs, step_sequence, idx,
                 current_data, attempt, stat, consecutive>>

\* The wall clock advances: at its granularity time passes while the
\* thread sleeps (time.sleep(1)) and between calls.
SimpleTick ==
  /\ now < MaxTime
  /\ \/ \E e \in Execs : running = e /\ pc[e] = "sleep"
     \/ running = 0
  /\ \E e \in Execs : pc[e] # "idle"
  /\ \E e \in Execs : pc[e] # "returned"
  /\ now' = now + 1
  /\ UNCHANGED <<config, circuit_breakers, execution_history, logs, running,
                 pc, execution, step_sequence, idx, current_data, attempt,
                 stat, consecutive>>

NextSimple ==
  \/ \E e \in Execs, input_data \in SimpleInputs, mode \in PipelineMode :
       SimpleStart(e, input_data, mode)
  \/ \E e \in Execs : SimpleSkip(e)
  \/ \E e \in Execs : SimpleBeginStep(e)
  \/ \E e \in Execs : SimpleValidationError(e)
  \/ \E e \in Execs : SimplePostFails(e)
  \/ \E e \in Execs : SimpleWake(e)
  \/ \E e \in Execs, outcome \in Outcomes : SimplePostReturns(e, outcome)
  \/ \E e \in Execs : SimpleMergeOutput(e)
  \/ \E e \in Execs : SimpleMergeRaises(e)
  \/ \E e \in Execs : SimpleLoopEnd(e)
  \/ \E e \in Execs : SimpleFinally(e)
  \/ SimpleTick

\* The synchronous orchestrator.
SpecSimple == InitSimple /\ [][NextSimple]_vars

\* ------------------------------------------------------- either orchestrator

\* The configuration of the synchronous orchestrator has no error_handling
\* section: it is never read.
IsSimple == "error_handling" \notin DOMAIN config

\* One orchestrator of either class is constructed.
InitEither == Init \/ InitSimple

NextEither ==
  \/ ~IsSimple /\ Next
  \/ IsSimple /\ NextSimple

SpecEither == InitEither /\ [][NextEither]_vars

\* ------------------------------------------------------------------ claims

\* The executions of the calls made so far, and those of the history.
Started == {e \in Execs : pc[e] # "idle"}
Returned == {e \in Execs : pc[e] = "returned"}
Records ==
  {execution[e] : e \in Started} \cup Range(execution_history)

Terminal == {COMPLETED, FAILED, SKIPPED}

\* A failed record of a critical step that has no fallback configured.
CriticalFailure(step) ==
  /\ step.status = FAILED
  /\ step.name \in Range(config.routing.default_flow)
  /\ step.name \notin DOMAIN config.error_handling.fallback_responses

\* C1: when a critical step (one of routing.default_flow) fails and no
\* fallback is configured for it, the execution is FAILED and the failed
\* step's record is the last one: no later step of the sequence has a record.
C1_CriticalFailureAborts ==
  \A x \in Records : \A i \in 1..Len(x.steps) :
    CriticalFailure(x.steps[i]) => x.status = FAILED /\ i = Len(x.steps)

\* A returned FAILED execution whose last record is such a step, with a
\* step of the resolved sequence left after it.
C1_Witness ==
  \E e \in Returned :
    /\ execution[e].status = FAILED
    /\ execution[e].steps # <<>>
    /\ CriticalFailure(CurrentStep(e))
    /\ idx[e] < Len(step_sequence[e])
    /\ step_sequence[e][idx[e]] = CurrentStep(e).name

\* C2: a call that has returned left a record that is COMPLETED or FAILED,
\* with its end time and total duration set, and appended to
\* execution_history -- whether a step failed, a step's configuration was
\* not found or the sequence ran to its end.
C2_ReturnsFinalRecord ==
  \A e \in Returned :
    /\ execution[e].status \in {COMPLETED, FAILED}
    /\ execution[e].end_time # None
    /\ execution[e].total_duration_ms # NoDuration
    /\ execution[e] \in Range(execution_history)

\* A call returned after _get_step_config raised in the middle of its loop.
C2_Witness ==
  \E e \in Returned :
    /\ execution[e].error # <<>>
    /\ execution[e].error[1] = "Step configuration not found"
    /\ execution[e].status = FAILED
    /\ execution[e] \in Range(execution_history)

\* C3: every step record of a returned execution is COMPLETED, FAILED or
\* SKIPPED, also when the run was cut short by a critical failure or by an
\* exception caught at the top level.
C3_StepsTerminal ==
  \A e \in Returned : \A i \in 1..Len(execution[e].steps) :
    execution[e].steps[i].status \in Terminal

\* A run cut short by the top-level except after a step had failed.
C3_Witness ==
  \E e \in Returned :
    /\ execution[e].error # <<>>
    /\ execution[e].error[1] = "Step configuration not found"
    /\ execution[e].steps # <<>>
    /\ CurrentStep(e).status = FAILED

FailureThreshold == config.error_handling.circuit_breaker.failure_threshold

\* C4: when a component's run of consecutive step failures by exhausted
\* attempts (no other step outcome for the component in between) reaches
\* failure_threshold, the component's breaker is open.
C4_ThresholdOpens ==
  [][\A c \in config.components :
       (consecutive'[c] > consecutive[c] /\ consecutive'[c] >= FailureThreshold)
         => circuit_breakers'[c].state = "open"]_vars

\* Two exhausted steps in a row for a component, and its breaker open.
C4_Witness ==
  \E c \in config.components :
    /\ consecutive[c] = FailureThreshold
    /\ circuit_breakers[c].failures = FailureThreshold
    /\ circuit_breakers[c].state = "open"

\* The breaker is enabled, open, and recovery_timeout has not passed since
\* its last failure.
Blocking(c) ==
  /\ config.error_handling.circuit_breaker.enabled
  /\ circuit_breakers[c].state = "open"
  /\ now - circuit_breakers[c].last_failure
       <= config.error_handling.circuit_breaker.recovery_timeout

\* The call e consults the breaker in this step.
Consults(e) == stat'[e].invocations > stat[e].invocations

\* The step record e is working on, after this step.
CurrentStepNext(e) == execution'[e].steps[Len(execution[e].steps)]

\* C5: while a component's breaker blocks, no POST is sent to the component
\* by any call, and a step that consults it fails at once with the
\* breaker-open error, without an attempt; in every interleaving of calls.
C5_NoPostWhileOpen ==
  [][\A e \in Started : execution[e].steps # <<>> =>
       /\ stat'[e].posts > stat[e].posts
            => ~Blocking(CurrentStep(e).component)
       /\ (Consults(e) /\ Blocking(CurrentStep(e).component))
            => /\ CurrentStepNext(e).status = FAILED
               /\ CurrentStepNext(e).error = "Circuit breaker open"
               /\ stat'[e].calls = 0]_vars

\* The attempts of the current step of e are exhausted in this step.
Exhausts(e) ==
  /\ pc[e] = "attempt" /\ pc'[e] \in {"loop", "finally"}
  /\ attempt[e] >= RetryCount(StepConfigOf(e))

\* The executor returns a response for the current step of e in this step.
Succeeds(e) == pc[e] = "attempt" /\ pc'[e] = "merge"

\* The breaker of c is open again, its count and timestamp updated.
Reopened(c) ==
  /\ circuit_breakers'[c].state = "open"
  /\ circuit_breakers'[c].failures = circuit_breakers[c].failures + 1
  /\ circuit_breakers'[c].last_failure = now

C7_RetryBudget ==
  /\ [](\A e \in Started : execution[e].steps # <<>> =>
          /\ stat[e].calls <= RetryCount(StepConfigOf(e)) + 1
          /\ stat[e].invocations <= 1)
  /\ [][\A e \in Started :
          (/\ execution[e].steps # <<>>
           /\ CurrentStep(e).status # IN_PROGRESS
           /\ Len(execution'[e].steps) = Len(execution[e].steps))
            => stat'[e] = stat[e]]_vars

\* A step with retry_count 1 that failed after exactly two POSTs.
C7_Witness ==
  \E e \in Started :
    /\ execution[e].steps # <<>>
    /\ CurrentStep(e).status = FAILED
    /\ RetryCount(StepConfigOf(e)) = 1
    /\ stat[e].calls = 2 /\ stat[e].posts = 2

\* C8: a step that exhausts its attempts adds exactly 1 to the failure
\* count of its component's breaker, and a failed attempt that is followed
\* by a retry leaves every breaker as it is.
C8_OneFailurePerStep ==
  [][\A e \in Started : pc[e] = "attempt" =>
       LET c == CurrentStep(e).component
       IN  /\ pc'[e] = "sleep" => circuit_breakers' = circuit_breakers
           /\ Exhausts(e) =>
                /\ circuit_breakers'[c].failures
                     = circuit_breakers[c].failures + 1
                /\ \A d \in config.components \ {c} :
                     circuit_breakers'[d] = circuit_breakers[d]]_vars

\* A step failed after two attempts and its breaker counts one failure.
C8_Witness ==
  \E e \in Started :
    /\ execution[e].steps # <<>>
    /\ CurrentStep(e).status = FAILED
    /\ stat[e].calls = 2
    /\ circuit_breakers[CurrentStep(e).component].failures = 1

\* The key of routing.bypass_modes that belongs to each mode.
C9_Key(mode) ==
  CASE mode = "QUICK" -> "quick_mode"
    [] mode = "ANALYSIS" -> "analysis_mode"
    [] mode = "FULL" -> "full_pipeline"

\* C9: the sequence a call resolves is the list configured under
\* routing.bypass_modes for its mode's key (QUICK: quick_mode), and
\* routing.default_flow when bypass_modes has no entry for that key.
C9_ModeResolution ==
  \A e \in Started :
    LET bypass_modes == config.routing.bypass_modes
        key == C9_Key(execution[e].mode)
    IN  step_sequence[e] = IF key \in DOMAIN bypass_modes
                             THEN bypass_modes[key]
                             ELSE config.routing.default_flow

\* One call in QUICK mode running bypass_modes.quick_mode, and one in FULL
\* mode, which has no entry, running the default flow.
C9_Witness ==
  /\ \E e \in Started :
       /\ execution[e].mode = "QUICK"
       /\ step_sequence[e] = config.routing.bypass_modes["quick_mode"]
  /\ \E e \in Started :
       /\ execution[e].mode = "FULL"
       /\ "full_pipeline" \notin DOMAIN config.routing.bypass_modes
       /\ step_sequence[e] = config.routing.default_flow

\* A failed record of a step that is not in the default flow.
NonCriticalFailure(step) ==
  /\ step.status = FAILED
  /\ step.name \notin Range(config.routing.default_flow)

\* C10: a failed non-critical step has its error set and the record after
\* it has the same input snapshot; when the step fails the context and the
\* execution's status stay as they are and the loop goes on to the next
\* step of the sequence.
C10_NonCriticalContinues ==
  /\ [](\A x \in Records : \A i \in 1..Len(x.steps) :
          NonCriticalFailure(x.steps[i]) =>
            /\ x.steps[i].error # "None"
            /\ i < Len(x.steps) =>
                 x.steps[i + 1].input_data = x.steps[i].input_data)
  /\ [][\A e \in Started :
          (/\ execution[e].steps # <<>>
           /\ Len(execution'[e].steps) = Len(execution[e].steps)
           /\ ~NonCriticalFailure(CurrentStep(e))
           /\ NonCriticalFailure(CurrentStepNext(e)))
            => /\ current_data'[e] = current_data[e]
               /\ execution'[e].status = execution[e].status
               /\ execution'[e].status = IN_PROGRESS
               /\ pc'[e] = "loop"
               /\ idx'[e] = idx[e] + 1]_vars

\* A COMPLETED execution whose non-critical step failed after two attempts
\* and whose next step ran on the same input.
C10_Witness ==
  \E e \in Returned :
    /\ execution[e].status = COMPLETED
    /\ Len(execution[e].steps) = 2
    /\ NonCriticalFailure(execution[e].steps[1])
    /\ execution[e].steps[1].error = "HTTP error"
    /\ execution[e].steps[2].input_data = execution[e].steps[1].input_data
    /\ execution[e].steps[2].status = COMPLETED

\* A failed record of a critical step that has a fallback payload
\* configured, whatever the payload holds.
FailureWithFallback(step) ==
  /\ step.status = FAILED
  /\ step.name \in Range(config.routing.default_flow)
  /\ step.name \in DOMAIN config.error_handling.fallback_responses

\* The execution was aborted by the failure of the step of that name.
AbortedBy(x, name) ==
  /\ x.status = FAILED
  /\ x.error # <<>>
  /\ x.error[1] = "Critical step failed"
  /\ x.error[2] = name

\* C11: when a critical step fails and a fallback payload is configured for
\* it, whatever the payload holds, that failure does not abort the
\* execution, and the record after it has the payload's fields in its input
\* snapshot.
C11_FallbackContinues ==
  \A x \in Records : \A i \in 1..Len(x.steps) :
    FailureWithFallback(x.steps[i]) =>
      /\ ~AbortedBy(x, x.steps[i].name)
      /\ i < Len(x.steps) =>
           LET payload ==
                 config.error_handling.fallback_responses[x.steps[i].name]
           IN  \A f \in Keys(payload) :
                 x.steps[i + 1].input_data[f] = payload[f]

\* The records execution e holds for the step of that name.
RecordsOf(e, name) ==
  {j \in 1..Len(execution[e].steps) : execution[e].steps[j].name = name}

\* The positions of the resolved sequence of e that hold a critical step.
CriticalPositions(e) ==
  {i \in 1..Len(step_sequence[e]) :
     step_sequence[e][i] \in Range(config.routing.default_flow)}

\* C12 as stated: when a returned execution is COMPLETED, every step of its
\* resolved sequence that belongs to routing.default_flow has a step record
\* whose status is COMPLETED.
C12_AsStated ==
  \A e \in Returned : execution[e].status = COMPLETED =>
    \A i \in CriticalPositions(e) :
      \E j \in RecordsOf(e, step_sequence[e][i]) :
        execution[e].steps[j].status = COMPLETED

\* C12 amended: when a returned execution is COMPLETED, every enabled step
\* of its resolved sequence that belongs to routing.default_flow has a step
\* record, and every record of such a step is COMPLETED, or FAILED with a
\* fallback payload configured for the step.
C12_CompletedCriticalSteps ==
  \A e \in Returned : execution[e].status = COMPLETED =>
    \A i \in CriticalPositions(e) :
      LET name == step_sequence[e][i]
      IN  /\ _get_step_config(name).found
          /\ _get_step_config(name).step.enabled
               => /\ RecordsOf(e, name) # {}
                  /\ \A j \in RecordsOf(e, name) :
                       \/ execution[e].steps[j].status = COMPLETED
                       \/ FailureWithFallback(execution[e].steps[j])

\* A COMPLETED execution whose sequence holds a disabled critical step and
\* a critical step that failed and was replaced by its fallback payload.
C12_Witness ==
  \E e \in Returned :
    /\ execution[e].status = COMPLETED
    /\ \E i \in CriticalPositions(e) :
         ~_get_step_config(step_sequence[e][i]).step.enabled
    /\ \E j \in 1..Len(execution[e].steps) :
         /\ FailureWithFallback(execution[e].steps[j])
         /\ current_data[e]["response_text"] = "fallback"

\* The execution was failed by the top-level except clause, which took an
\* exception raised outside the execution of a step.
CaughtAtTopLevel(x) ==
  /\ x.status = FAILED
  /\ x.error # <<>>
  /\ x.error[1] = "Step configuration not found"

\* C13: a returned execution that is FAILED either ends with the FAILED
\* record of a critical step that has no fallback payload configured, or
\* was failed by an exception caught at the top level; and the failure of a
\* non-critical step, or of a critical step with a configured fallback,
\* does not make the execution FAILED.
C13_FailedCauses ==
  /\ \A e \in Returned : execution[e].status = FAILED =>
       \/ /\ execution[e].steps # <<>>
          /\ CriticalFailure(CurrentStep(e))
          /\ AbortedBy(execution[e], CurrentStep(e).name)
       \/ CaughtAtTopLevel(execution[e])
  /\ \A x \in Records : \A i \in 1..Len(x.steps) :
       (NonCriticalFailure(x.steps[i]) \/ FailureWithFallback(x.steps[i]))
         => ~AbortedBy(x, x.steps[i].name)

\* C14: a step that is executed while one of its required fields is absent
\* from the context fails at its first validation: no POST is sent, the
\* validation is made once and no retry delay is slept, whatever the
\* step's retry_count.
C14_ValidationNotRetried ==
  \A e \in Started : execution[e].steps # <<>> =>
    /\ (pc[e] \in {"attempt", "sleep"} /\ MissingFields(e) # {})
         => /\ pc[e] = "attempt"
            /\ stat[e].calls = 0
            /\ stat[e].posts = 0
    /\ CurrentStep(e).error = "Missing required fields"
         => /\ stat[e].calls = 1
            /\ stat[e].posts = 0

\* C15: a disabled step of the resolved sequence gets a step record with
\* status SKIPPED, so while a call is between two steps its steps list has
\* one record for every step name processed so far, in the sequence's order.
C15_DisabledSkipped ==
  \A e \in Started : pc[e] = "loop" =>
    /\ Len(execution[e].steps) = idx[e] - 1
    /\ \A i \in 1..Len(execution[e].steps) :
         /\ execution[e].steps[i].name = step_sequence[e][i]
         /\ ~_get_step_config(step_sequence[e][i]).step.enabled
              => execution[e].steps[i].status = SKIPPED

\* C16: a routing entry that names a step sequence.steps does not define
\* makes construction fail, so on a constructed orchestrator no call runs a
\* sequence that holds a name without a definition.
C16_UnknownStepAtConstruction ==
  \A e \in Started : \A i \in 1..Len(step_sequence[e]) :
    _get_step_config(step_sequence[e][i]).found

\* C17: in every reachable state a breaker that is open has a failure
\* count of at least failure_threshold.
C17_OpenMeansThreshold ==
  \A c \in config.components :
    circuit_breakers[c].state = "open"
      => circuit_breakers[c].failures >= FailureThreshold

\* A call returned after its half-open trial failed: the breaker is open
\* with one failure more than the threshold.
C17_Witness ==
  \E e \in Returned :
    /\ execution[e].steps # <<>>
    /\ stat[e].trial
    /\ CurrentStep(e).status = FAILED
    /\ LET c == CurrentStep(e).component
       IN  /\ circuit_breakers[c].state = "open"
           /\ circuit_breakers[c].failures = FailureThreshold + 1

RecoveryTimeout == config.error_handling.circuit_breaker.recovery_timeout

\* C18 as stated: in every reachable state a breaker that is open had its
\* last failure less than recovery_timeout ago.
C18_AsStated ==
  \A c \in config.components :
    circuit_breakers[c].state = "open"
      => now - circuit_breakers[c].last_failure < RecoveryTimeout

\* C18 amended: with the breaker enabled, a breaker that is open right
\* after it was consulted had its last failure at most recovery_timeout
\* ago; between consultations an open breaker stays open as time passes.
C18_OpenAfterConsultation ==
  [][\A e \in Started : execution[e].steps # <<>> =>
       LET c == CurrentStep(e).component
       IN  (/\ config.error_handling.circuit_breaker.enabled
            /\ Consults(e)
            /\ circuit_breakers'[c].state = "open")
             => now - circuit_breakers'[c].last_failure <= RecoveryTimeout]_vars

\* A step rejected by a breaker consulted exactly recovery_timeout after
\* its last failure: the breaker is still open.
C18_Witness ==
  \E e \in Started :
    /\ execution[e].steps # <<>>
    /\ CurrentStep(e).error = "Circuit breaker open"
    /\ CurrentStep(e).end_time = now
    /\ LET c == CurrentStep(e).component
       IN  /\ circuit_breakers[c].state = "open"
           /\ now - circuit_breakers[c].last_failure = RecoveryTimeout

\* The call e is admitted to the executor's retry loop in this step.
Admitted(e) == Consults(e) /\ pc'[e] = "attempt"

\* C19: a breaker becomes half-open in the consultation that admits the
\* trial; while it stays half-open no other step of the component is
\* admitted, in any call: a consultation that finds the breaker half-open
\* admits nothing.
C19_SingleTrial ==
  [][\A e \in Started : execution[e].steps # <<>> =>
       LET c == CurrentStep(e).component
       IN  circuit_breakers[c].state = "half-open" => ~Admitted(e)]_vars

\* The breaker of c is written in this step by _record_failure or
\* _reset_circuit_breaker (a consultation moves it to half-open only).
Updated(c) ==
  \/ circuit_breakers'[c].failures # circuit_breakers[c].failures
  \/ circuit_breakers'[c].last_failure # circuit_breakers[c].last_failure
  \/ /\ circuit_breakers'[c].state # circuit_breakers[c].state
     /\ circuit_breakers'[c].state # "half-open"

\* The call e has consulted the breaker for its current step and has not
\* yet recorded the step's outcome.
BetweenConsultAndRecord(e) == pc[e] \in {"attempt", "sleep"}

\* C20: while a call is between its consultation of a component's breaker
\* and its recording of the step's outcome, no other call records a failure
\* on that breaker or resets it.
C20_AtomicConsultRecord ==
  [][\A e \in Started : \A f \in Started \ {e} :
       (/\ BetweenConsultAndRecord(e)
        /\ execution[f].steps # <<>>
        /\ CurrentStep(f).component = CurrentStep(e).component
        /\ pc'[f] # pc[f])
         => ~Updated(CurrentStep(e).component)]_vars

\* The transitions of a breaker's state the state machine allows.
AllowedTransitions ==
  { <<"closed", "open">>, <<"open", "half-open">>,
    <<"half-open", "closed">>, <<"half-open", "open">> }

\* C21: a breaker's state changes only along closed -> open,
\* open -> half-open, half-open -> closed and half-open -> open (never from
\* open to closed directly), with the breaker enabled or disabled and in
\* every interleaving of calls.
C21_AllowedTransitions ==
  [][\A c \in config.components :
       circuit_breakers'[c].state # circuit_breakers[c].state
         => <<circuit_breakers[c].state, circuit_breakers'[c].state>>
              \in AllowedTransitions]_vars

\* The names of a list of step records.
Names(steps) == [i \in 1..Len(steps) |-> steps[i].name]

\* s is an order-preserving subsequence of t: the first element of s is
\* looked for in t, and the rest of s in what follows it.
RECURSIVE IsSubsequence(_, _)
IsSubsequence(s, t) ==
  IF s = <<>> THEN TRUE
  ELSE IF t = <<>> THEN FALSE
  ELSE IF Head(s) = Head(t) THEN IsSubsequence(Tail(s), Tail(t))
  ELSE IsSubsequence(s, Tail(t))

\* C22: within one execution the names of the step records form an
\* order-preserving subsequence of the resolved sequence, taken from the
\* part of it the loop has reached; only the last record can be
\* IN_PROGRESS, so a step starts after every earlier record is terminal.
C22_StepsSequential ==
  \A e \in Started :
    /\ IsSubsequence(Names(execution[e].steps),
                     SubSeq(step_sequence[e], 1,
                            IF idx[e] <= Len(step_sequence[e])
                              THEN idx[e] ELSE Len(step_sequence[e])))
    /\ \A i \in 1..Len(execution[e].steps) :
         i < Len(execution[e].steps)
           => execution[e].steps[i].status \in Terminal
    /\ Cardinality({i \in 1..Len(execution[e].steps) :
                      execution[e].steps[i].status = IN_PROGRESS}) <= 1

\* Two calls interleaved, each with a step IN_PROGRESS, one of them on its
\* second record after a disabled step was passed over.
C22_Witness ==
  \E e \in Started : \E f \in Started \ {e} :
    /\ Len(execution[e].steps) = 2
    /\ Len(step_sequence[e]) = 3
    /\ execution[e].steps[2].name = step_sequence[e][3]
    /\ execution[e].steps[2].status = IN_PROGRESS
    /\ execution[f].steps # <<>>
    /\ CurrentStep(f).status = IN_PROGRESS

\* C23: execution_history changes only when a call finalizes, by that
\* call's record being appended at the end: the entries already there keep
\* their places, a call appends once, and get_execution_history and
\* get_pipeline_metrics leave the list as it is.
C23_HistoryAppendOnly ==
  /\ [][\/ execution_history' = execution_history
        \/ \E e \in Started :
             /\ pc[e] = "finally" /\ pc'[e] = "returned"
             /\ execution_history' = Append(execution_history, execution'[e])]_vars
  /\ [](Len(execution_history) = Cardinality(Returned))

\* Two records in the history in the order the calls finalized: the call
\* that started later is first, so the list is not in start-time order.
C23_Witness ==
  /\ Len(execution_history) = 2
  /\ execution_history[1] = execution[2]
  /\ execution_history[2] = execution[1]
  /\ execution_history[1].start_time > execution_history[2].start_time

\* C24: once a step record is COMPLETED, FAILED or SKIPPED, no step of the
\* orchestrator changes its status, error, end time or output, whatever the
\* downstream response was; and a record that becomes terminal was
\* IN_PROGRESS before.
C24_StepImmutable ==
  [][\A e \in Started : \A i \in 1..Len(execution[e].steps) :
       LET step == execution[e].steps[i]
           next == execution'[e].steps[i]
       IN  /\ step.status \in Terminal
                => /\ next.status = step.status
                   /\ next.error = step.error
                   /\ next.end_time = step.end_time
                   /\ next.output_data = step.output_data
           /\ next.status # step.status => step.status = IN_PROGRESS]_vars

\* The retries the current step of e has consumed: its attempts beyond the
\* first.
RetriesConsumed(e) == IF stat[e].calls > 0 THEN stat[e].calls - 1 ELSE 0

\* C25: when a step record is terminal (and so after the call returns) its
\* retry_count is the number of retries the step consumed.
C25_RetryCountConsumed ==
  \A e \in Started :
    (execution[e].steps # <<>> /\ CurrentStep(e).status \in Terminal)
      => CurrentStep(e).retry_count = RetriesConsumed(e)

\* The errors an attempt of _execute_single_step raises.
AttemptErrors == {"HTTP error", "Missing required fields"}

\* C26: for every configured retry_delays list, a step whose attempt k fails
\* with retries left sleeps retry_delays[min(k, len - 1)] (the last delay is
\* reused once the attempts outnumber the list), no delay is slept after
\* the final attempt, and a step that fails on this path always ends with
\* the last attempt's error raised and one breaker failure recorded.
C26_RetryDelays ==
  [][\A e \in Started :
       (pc[e] = "attempt" /\ pc'[e] \in {"sleep", "loop", "finally"}) =>
         LET d == config.error_handling.retry_delays
             k == attempt[e]
             component == CurrentStep(e).component
         IN  /\ k < RetryCount(StepConfigOf(e)) =>
                  /\ pc'[e] = "sleep"
                  /\ stat'[e].delays =
                       Append(stat[e].delays,
                              d[(IF k < Len(d) - 1 THEN k ELSE Len(d) - 1) + 1])
             /\ k >= RetryCount(StepConfigOf(e)) =>
                  /\ pc'[e] # "sleep"
                  /\ stat'[e].delays = stat[e].delays
             /\ pc'[e] # "sleep" =>
                  /\ execution'[e].steps[Len(execution'[e].steps)].error
                       \in AttemptErrors
                  /\ circuit_breakers'[component].failures =
                       circuit_breakers[component].failures + 1]_vars

\* The call e has its current step rejected by the breaker in this step.
Rejects(e) ==
  /\ pc[e] = "executor" /\ pc'[e] # "executor"
  /\ CurrentStepNext(e).error = "Circuit breaker open"

\* The consultation of c's breaker by e moves it from open to half-open,
\* more than recovery_timeout after its last failure.
ConsultationRecovers(e, c) ==
  /\ pc[e] = "executor" /\ pc'[e] = "attempt"
  /\ CurrentStep(e).component = c
  /\ circuit_breakers[c].state = "open"
  /\ now - circuit_breakers[c].last_failure > RecoveryTimeout
  /\ circuit_breakers'[c] =
       [circuit_breakers[c] EXCEPT !.state = "half-open"]

\* An attempt of e on c returns or raises in this step.
OutcomeRecorded(e, c) ==
  /\ pc[e] = "attempt" /\ pc'[e] # "attempt"
  /\ CurrentStep(e).component = c

\* C27: a step rejected because its component's breaker is open leaves
\* that breaker as it was (failure count, last-failure time and state); a
\* breaker is modified only by a consultation after recovery_timeout, which
\* moves it from open to half-open, or by a recorded outcome.
C27_RejectionLeavesBreaker ==
  [][\A c \in DOMAIN circuit_breakers :
       /\ \A e \in Started :
            (Rejects(e) /\ CurrentStep(e).component = c) =>
              /\ circuit_breakers[c].state = "open"
              /\ circuit_breakers'[c] = circuit_breakers[c]
       /\ circuit_breakers'[c] # circuit_breakers[c] =>
            \E e \in Started :
              ConsultationRecovers(e, c) \/ OutcomeRecorded(e, c)]_vars

\* C27: a step was rejected later than the breaker's last failure, and the
\* breaker is open with that last failure still.
C27_Witness ==
  \E e \in Started :
    /\ execution[e].steps # <<>>
    /\ CurrentStep(e).error = "Circuit breaker open"
    /\ circuit_breakers[CurrentStep(e).component].state = "open"
    /\ CurrentStep(e).start_time
         > circuit_breakers[CurrentStep(e).component].last_failure

\* C28: execution identifiers are unique: no two records of
\* execution_history have the same execution_id, and so no persisted
\* execution log overwrites another.
C28_UniqueExecutionIds ==
  /\ \A i, j \in 1..Len(execution_history) :
       i # j => execution_history[i].execution_id
                  # execution_history[j].execution_id
  /\ Cardinality(DOMAIN logs) = Len(execution_history)

\* The names of seq that have an enabled entry in sequence.steps.
Configured(seq) ==
  SelectSeq(seq, LAMBDA n : /\ _get_step_config(n).found
                            /\ _get_step_config(n).step.enabled)

\* The attempts of the current step of the synchronous call e are
\* exhausted, or its output cannot be merged, in this step.
SimpleStepFails(e) ==
  \/ pc[e] = "attempt" /\ pc'[e] \in {"loop", "finally"}
  \/ pc[e] = "merge" /\ CurrentStepNext(e).status # COMPLETED

\* An exception left the step loop of e and reached the top-level except.
Escaped(e) == execution[e].error # <<>>

\* C29: in the synchronous variant a step failure neither aborts nor fails
\* the execution: the step record is FAILED, the mock output of summarize /
\* process_summary / respond is merged, the loop goes on to the next step,
\* names without configuration are passed over, and the execution ends
\* COMPLETED unless an exception escaped the step loop.
C29_SimpleNeverAborts ==
  [][\A e \in Started :
       /\ SimpleStepFails(e) =>
            /\ CurrentStepNext(e).status = FAILED
            /\ Escaped(e)' \/
                 /\ pc'[e] = "loop" /\ idx'[e] = idx[e] + 1
                 /\ execution'[e].status = IN_PROGRESS
                 /\ LET name == CurrentStep(e).name
                        data == current_data'[e]
                    IN  /\ name = "summarize" => data["summary"] = "mock"
                        /\ name = "process_summary" => data["task_id"] = "mock"
                        /\ name = "respond" => data["response_text"] = "mock"
       /\ (pc[e] = "finally" /\ pc'[e] = "returned") =>
            IF Escaped(e)'
              THEN execution'[e].status = FAILED
              ELSE /\ execution'[e].status = COMPLETED
                   /\ Names(execution'[e].steps) = Configured(step_sequence[e])
     ]_vars

\* C29: a full_pipeline call returned COMPLETED though its first step
\* failed; the next step ran on the mock summary, and the three names
\* without configuration left no record.
C29_Witness ==
  \E e \in Returned :
    /\ execution[e].mode = "FULL"
    /\ execution[e].status = COMPLETED
    /\ Len(execution[e].steps) = 3
    /\ execution[e].steps[1].status = FAILED
    /\ execution[e].steps[2].input_data["summary"] = "mock"
    /\ execution[e] \in Range(execution_history)

\* The steps of the asynchronous call e after its start.
CallStep(e) ==
  \/ LoopEnd(e) \/ StepConfigNotFound(e) \/ SkipDisabled(e) \/ BeginStep(e)
  \/ BreakerRejects(e) \/ BreakerAdmits(e)
  \/ ValidationError(e) \/ PostFails(e)
  \/ \E outcome \in Outcomes : PostReturns(e, outcome)
  \/ MergeOutput(e) \/ MergeRaises(e) \/ Wake(e) \/ Finally(e)

\* The steps of the synchronous call e after its start.
SimpleCallStep(e) ==
  \/ SimpleSkip(e) \/ SimpleBeginStep(e)
  \/ SimpleValidationError(e) \/ SimplePostFails(e) \/ SimpleWake(e)
  \/ \E outcome \in Outcomes : SimplePostReturns(e, outcome)
  \/ SimpleMergeOutput(e) \/ SimpleMergeRaises(e)
  \/ SimpleLoopEnd(e) \/ SimpleFinally(e)

\* The call e can take a step, given that every downstream call returns or
\* times out and every sleep ends.
CanStep(e) ==
  \/ ~IsSimple /\ ENABLED CallStep(e)
  \/ IsSimple /\ ENABLED SimpleCallStep(e)

\* The calls made and not returned.
InFlight == {e \in Execs : pc[e] \notin {"idle", "returned"}}

\* The largest retry budget of the configured steps.
MaxRetryCount ==
  LET steps == config.sequence.steps
  IN  CHOOSE r \in {RetryCount(steps[i]) : i \in 1..Len(steps)} :
        \A i \in 1..Len(steps) : RetryCount(steps[i]) <= r

\* An upper bound of the steps the call e has yet to take: the iterations of
\* the loop left, each worth more than the positions inside one iteration
\* (the breaker consultation, two per attempt, the merge).
StepWeight == 2 * MaxRetryCount + 5
Remaining(e) ==
  LET left == Len(step_sequence[e]) + 1 - idx[e]
      loop == 2 + left * StepWeight
  IN  CASE pc[e] = "returned" -> 0
        [] pc[e] = "finally" -> 1
        [] pc[e] = "loop" -> loop
        [] pc[e] = "executor" -> loop - 1
        [] pc[e] = "attempt" -> loop - 2 - 2 * attempt[e]
        [] pc[e] = "sleep" -> loop - 3 - 2 * attempt[e]
        [] pc[e] = "merge" -> loop - StepWeight + 1
        [] OTHER -> 0

\* C30: every execute_pipeline call terminates, in both variants: while a
\* call is in flight some call can take a step (a sleeping call waits only
\* for the one that holds the event loop), every step of a call lowers a
\* natural-number bound of the steps it has left, whatever the downstream
\* outcomes and the breaker states, and the call returns COMPLETED or FAILED
\* with its record appended to execution_history.
C30_Terminates ==
  /\ [](\A e \in InFlight :
          /\ Remaining(e) \in Nat
          /\ IF pc[e] = "sleep" /\ running \notin {0, e}
               THEN running \in InFlight /\ pc[running] # "sleep"
               ELSE CanStep(e))
  /\ [][\A e \in InFlight :
          /\ << pc[e], idx[e], attempt[e], execution[e] >>
               # << pc'[e], idx'[e], attempt'[e], execution'[e] >>
               => Remaining(e)' < Remaining(e)
          /\ pc'[e] = "returned" =>
               /\ execution'[e].status \in {COMPLETED, FAILED}
               /\ execution_history' = Append(execution_history, execution'[e])
     ]_vars

\* C30: every call made has returned and is in the history, one of them
\* after sleeping between two attempts of its last step.
C30_Witness ==
  /\ \A e \in Execs : pc[e] = "returned" /\ execution[e] \in Range(execution_history)
  /\ Len(execution_history) = MaxExecs
  /\ \E e \in Execs : stat[e].delays # <<>>

====
